---- MODULE Spec2Model ----
(***************************************************************************)
(* Model of src/xml/helper.c, the C glue between a host runtime and        *)
(* libxml2: xmlParse, xmlParseFragment, xmlParseFragmentAsDoc,             *)
(* xmlSetContent, xmlUnlinkNodeWithCheck / xmlNodePtrCheck and xmlSaveNode *)
(* with its two output callbacks.                                          *)
(*                                                                         *)
(* The adapter is single threaded.  Three specifications cover its three   *)
(* independent groups of state:                                            *)
(*   SpecTree   node links: xmlUnlinkNodeWithCheck, xmlSetContent          *)
(*   SpecParse  the library's last-error record, the caller's error        *)
(*              buffer and temporary documents: the three parse functions  *)
(*   SpecSave   the output sink: xmlSaveNode                               *)
(* libxml2 itself is not part of helper.c; where a helper calls into it    *)
(* the call is modelled by what libxml2 does at that call site.            *)
(***************************************************************************)
EXTENDS Integers, Sequences, FiniteSets

VARIABLES
    nodes,      \* xmlNode structs: parent, children, last, next, prev, content
    call,       \* the most recent tree call and what it did
    pc,         \* the line the adapter call in progress has reached, or "idle"
    fn,         \* the adapter function in progress, or the last one that ran
    args,       \* xmlParse: error_buffer and error_buffer_len
    lastError,  \* libxml2's process-wide last-error record
    staleAtEntry, \* did an earlier call leave an error behind at entry?
    doc,        \* xmlParse: doc
    errAtRead,  \* the last-error record as the read call left it
    error,      \* xmlParse: error, the pointer xmlGetLastError returned
    mem,        \* the bytes at error_buffer[-1 .. MemTop]
    written,    \* the indices of error_buffer the call has stored to
    libCalls,   \* the calls into libxml2 made by the call, in order
    tmpDoc,     \* xmlParseFragmentAsDoc: tmpDoc and how often it was freed
    ret,        \* the value returned
    job,        \* xmlSaveNode: wbuffer and what the subtree serializes to
    savectx,    \* xmlSaveNode: savectx and the state of its output buffer
    events      \* the callbacks invoked during the save, in order

treeVars == <<nodes, call>>

parseVars == <<pc, fn, args, lastError, staleAtEntry, doc, errAtRead, error,
               mem, written, libCalls, tmpDoc, ret>>

saveVars == <<job, savectx, events>>

vars == <<nodes, call, pc, fn, args, lastError, staleAtEntry, doc, errAtRead,
          error, mem, written, libCalls, tmpDoc, ret, job, savectx, events>>

(***************************************************************************)
(* Pointers.  Node addresses are 1..NumNodes.                              *)
(***************************************************************************)
NULL == 0

\* (void*)(-1), the value xmlNodePtrCheck compares against
SENTINEL == -1

NumNodes == 4

Nodes == 1..NumNodes

\* opaque host handles passed as gonode
GoHandles == {"go1", "go2"}

NoCall == [fn |-> "none"]

(***************************************************************************)
(* Text.  A string is a sequence of one-character strings; a char* is the  *)
(* set of the strings it points at, empty for the NULL pointer.            *)
(***************************************************************************)
NullStr == {}

Str(s) == {s}

Deref(p) == CHOOSE s \in p : TRUE

\* the content arguments tried, and the nodes xmlSetContent is tried on
Contents == { NullStr, Str(<<"<", "a", "&", ">">>) }

ContentNodes == {1, 2}

EscapeChar(c) ==
    CASE c = "<" -> <<"&", "l", "t", ";">>
      [] c = ">" -> <<"&", "g", "t", ";">>
      [] c = "&" -> <<"&", "a", "m", "p", ";">>
      [] OTHER   -> <<c>>

RECURSIVE EscapeFrom(_, _)
EscapeFrom(s, i) ==
    IF i > Len(s) THEN <<>> ELSE EscapeChar(s[i]) \o EscapeFrom(s, i + 1)

\* xmlEncodeSpecialChars(doc, input): NULL for a NULL input or when the
\* output buffer cannot be allocated, else the escaped copy
xmlEncodeSpecialChars(input, allocOk) ==
    IF input = NullStr \/ ~allocOk
    THEN NullStr
    ELSE Str(EscapeFrom(Deref(input), 1))

(***************************************************************************)
(* Trees.                                                                  *)
(***************************************************************************)
MinOf(S) == CHOOSE x \in S : \A y \in S : x <= y

MaxOf(S) == CHOOSE x \in S : \A y \in S : x >= y

\* the node structs of the forest in which n's parent is par[n] and
\* siblings are in address order
MakeNodes(par) ==
    [n \in Nodes |->
        LET kids == {c \in Nodes : par[c] = n}
            sibs == IF par[n] \in Nodes
                    THEN {c \in Nodes : par[c] = par[n]} ELSE {n}
            after  == {c \in sibs : c > n}
            before == {c \in sibs : c < n}
        IN [parent   |-> par[n],
            children |-> IF kids = {} THEN NULL ELSE MinOf(kids),
            last     |-> IF kids = {} THEN NULL ELSE MaxOf(kids),
            next     |-> IF after = {} THEN NULL ELSE MinOf(after),
            prev     |-> IF before = {} THEN NULL ELSE MaxOf(before),
            content  |-> NullStr]]

\* parent assignments of the forests the model starts from: a node hangs
\* under a lower address, is a root (NULL), or carries the sentinel
Forests ==
    {par \in [Nodes -> Nodes \cup {NULL, SENTINEL}] :
        \A n \in Nodes : par[n] \in Nodes => par[n] < n}

\* the children of n in list order, read through the next links
RECURSIVE ListFrom(_, _)
ListFrom(ns, c) ==
    IF c = NULL THEN <<>> ELSE <<c>> \o ListFrom(ns, ns[c].next)

ChildList(ns, n) == ListFrom(ns, ns[n].children)

\* libxml2 xmlUnlinkNode(cur) for a node whose parent is a node or NULL
xmlUnlinkNode(ns, cur) ==
    LET p  == ns[cur].parent
        nx == ns[cur].next
        pv == ns[cur].prev
        n1 == IF p # NULL
              THEN [ns EXCEPT ![p].children = IF @ = cur THEN nx ELSE @,
                              ![p].last     = IF @ = cur THEN pv ELSE @,
                              ![cur].parent = NULL]
              ELSE ns
        n2 == IF nx # NULL THEN [n1 EXCEPT ![nx].prev = pv] ELSE n1
        n3 == IF pv # NULL THEN [n2 EXCEPT ![pv].next = nx] ELSE n2
    IN [n3 EXCEPT ![cur].next = NULL, ![cur].prev = NULL]

\* What a call of xmlUnlinkNode(cur) can produce.  With the sentinel in
\* cur->parent the library reads parent->children through (void*)-1, which
\* is undefined: the process may stop there or go on to clear cur's links.
UnlinkOutcomes(ns, cur) ==
    IF ns[cur].parent = SENTINEL
    THEN { [nodes |-> ns, deref |-> TRUE],
           [nodes |-> [ns EXCEPT ![cur].parent = NULL, ![cur].next = NULL,
                                 ![cur].prev = NULL],
            deref |-> TRUE] }
    ELSE { [nodes |-> xmlUnlinkNode(ns, cur), deref |-> FALSE] }

xmlNodePtrCheck_always(node) == 1

xmlNodePtrCheck_null(node) == IF node = NULL THEN 0 ELSE 1

xmlNodePtrCheck(node) == IF node = SENTINEL THEN 0 ELSE 1

\* int xmlUnlinkNodeWithCheck(xmlNode *node)
XmlUnlinkNodeWithCheck(node) ==
    LET before == nodes[node].parent
        \* is this the second of two calls in a row on the same node?
        again  == call.fn = "xmlUnlinkNodeWithCheck" /\ call.node = node
    IN
    /\ UNCHANGED <<parseVars, saveVars>>
    /\ IF xmlNodePtrCheck(nodes[node].parent) # 0
       THEN \E o \in UnlinkOutcomes(nodes, node) :
              /\ nodes' = o.nodes
              /\ call' = [fn |-> "xmlUnlinkNodeWithCheck", node |-> node,
                          parentWas |-> before, ret |-> 1, unlinks |-> 1,
                          deref |-> o.deref, mutated |-> (o.nodes # nodes),
                          again |-> again]
       ELSE /\ nodes' = nodes
            /\ call' = [fn |-> "xmlUnlinkNodeWithCheck", node |-> node,
                        parentWas |-> before, ret |-> 0, unlinks |-> 0,
                        deref |-> FALSE, mutated |-> FALSE,
                        again |-> again]

\* the same loop reading child->next only after the unlink cleared it
RECURSIVE UnlinkChildren_nextAfterUnlink(_, _, _, _)
UnlinkChildren_nextAfterUnlink(ns, child, gonode, log) ==
    IF child = NULL
    THEN [nodes |-> ns, log |-> log]
    ELSE LET ns1  == xmlUnlinkNode(ns, child)
             next == ns1[child].next
         IN UnlinkChildren_nextAfterUnlink(ns1, next, gonode,
                           Append(log, [child |-> child, gonode |-> gonode]))

\* the while loop of xmlSetContent from `child`: each round reads
\* child->next, unlinks child, then hands child to xmlUnlinkNodeCallback
RECURSIVE UnlinkChildren(_, _, _, _)
UnlinkChildren(ns, child, gonode, log) ==
    IF child = NULL
    THEN [nodes |-> ns, log |-> log]
    ELSE LET next == ns[child].next
             ns1  == xmlUnlinkNode(ns, child)
         IN UnlinkChildren(ns1, next, gonode,
                           Append(log, [child |-> child, gonode |-> gonode]))

\* the children are torn down only under `if (encoded)`
TearDown_unguarded(encoded) == TRUE

TearDown(encoded) == encoded # NullStr

\* void xmlSetContent(void *gonode, void *n, void *content)
XmlSetContent(gonode, node, content, allocOk) ==
    LET encoded == xmlEncodeSpecialChars(content, allocOk)
        entry   == {c \in Nodes : nodes[c].parent = node}
        r       == IF TearDown(encoded)
                   THEN UnlinkChildren(nodes, nodes[node].children, gonode, <<>>)
                   ELSE [nodes |-> nodes, log |-> <<>>]
        \* xmlNodeSetContent(node, encoded): the node's text becomes encoded
        set     == IF encoded # NullStr
                   THEN [r.nodes EXCEPT ![node].content = encoded,
                                        ![node].children = NULL,
                                        ![node].last = NULL]
                   ELSE r.nodes
    IN /\ UNCHANGED <<parseVars, saveVars>>
       /\ nodes' = set
       /\ call' = [fn |-> "xmlSetContent", node |-> node, gonode |-> gonode,
                   encoded |-> encoded, entry |-> entry, log |-> r.log,
                   atAssign |-> IF encoded # NullStr
                                THEN Len(ChildList(r.nodes, node)) ELSE -1,
                   freed |-> IF encoded # NullStr THEN <<"encoded">> ELSE <<>>,
                   mutated |-> (set # nodes)]


(***************************************************************************)
(* Parsing: the last-error record, the error buffer, temporary documents.  *)
(***************************************************************************)
XML_ERR_OK == 0

XML_ERR_ERROR == 2

\* xmlErrorLevel: XML_ERR_WARNING, XML_ERR_ERROR, XML_ERR_FATAL
Levels == {XML_ERR_ERROR - 1, XML_ERR_ERROR, XML_ERR_ERROR + 1}

\* the largest error_buffer_len and the longest library message tried
MaxCap == 3

MaxMsgLen == 3

\* the width given to size_t: (size_t)(-1) is 2^SizeBits - 1
SizeBits == 16

SizeT(x) == x % (2 ^ SizeBits)

\* the addresses of a document and of the caller's error buffer
DocAddr == NumNodes + 1

BufAddr == NumNodes + 2

\* error_buffer[i] for i in MemIdx is modelled; the buffer itself is
\* error_buffer[0 .. error_buffer_len-1], the rest is memory around it
MemTop == MaxCap + 1

MemIdx == (0 - 1)..MemTop

\* memory as the caller hands it over
FreshMem == [i \in MemIdx |-> "?"]

MsgChars == <<"a", "b", "c", "d", "e", "f">>

Msg(k) == [i \in 1..k |-> MsgChars[i]]

\* the message pointers an xmlError can carry
Messages == {NullStr} \cup {Str(Msg(k)) : k \in 0..MaxMsgLen}

NoError == [code |-> XML_ERR_OK, level |-> 0, message |-> NullStr, fresh |-> FALSE]

\* the records a library call can raise; fresh marks a record raised during
\* the adapter call in progress
Raised == [code : {1}, level : Levels, message : Messages, fresh : {TRUE}]

\* no error raised leaves the record as it was
Raise(le, r) == IF r = {} THEN le ELSE Deref(r)

\* an adapter call starts: whatever record exists is from an earlier call
Aged(le) == [le EXCEPT !.fresh = FALSE]

\* libxml2 xmlResetLastError()
xmlResetLastError(le) == NoError

\* libxml2 xmlGetLastError(): NULL when no error is recorded
xmlGetLastError(le) == IF le.code = XML_ERR_OK THEN {} ELSE {le}

\* xmlReadMemory: a document or NULL, with or without an error raised.  A
\* NULL buffer fails without raising; a recovering parse returns a document
\* with an error raised; a document may lack a root element.
ReadOutcomes ==
    [doc : {NULL, DocAddr}, raised : {{}} \cup {{r} : r \in Raised},
     hasRoot : BOOLEAN]

LibCall(name, arg) == [fn |-> name, arg |-> arg]

ParseArgs == [error_buffer : {NULL, BufAddr}, error_buffer_len : 0..MaxCap]

NoTmpDoc == [ptr |-> NULL, frees |-> 0, hasRoot |-> FALSE]

Enter(name) ==
    /\ pc = "idle"
    /\ fn' = name
    /\ staleAtEntry' = (lastError.code # XML_ERR_OK)
    /\ doc' = NULL
    /\ errAtRead' = NoError
    /\ error' = {}
    /\ mem' = FreshMem
    /\ written' = {}
    /\ libCalls' = <<>>
    /\ tmpDoc' = NoTmpDoc
    /\ ret' = NULL

\* xmlParse is entered with its arguments (lines 44-48)
ParseEnter ==
    \E a \in ParseArgs :
        /\ Enter("xmlParse")
        /\ lastError' = Aged(lastError)
        /\ args' = a
        /\ pc' = "p50"
        /\ UNCHANGED <<treeVars, saveVars>>

\* line 50 left out
Parse_Reset_skipped ==
    /\ pc = "p50"
    /\ pc' = "p51"
    /\ UNCHANGED <<fn, args, lastError, staleAtEntry, doc, errAtRead, error,
                   mem, written, libCalls, tmpDoc, ret>>
    /\ UNCHANGED <<treeVars, saveVars>>

\* line 50: xmlResetLastError()
Parse_Reset ==
    /\ pc = "p50"
    /\ lastError' = xmlResetLastError(lastError)
    /\ libCalls' = Append(libCalls, LibCall("xmlResetLastError", NULL))
    /\ pc' = "p51"
    /\ UNCHANGED <<fn, args, staleAtEntry, doc, errAtRead, error, mem, written,
                   tmpDoc, ret>>
    /\ UNCHANGED <<treeVars, saveVars>>

\* lines 51-53 and 68: doc = xmlReadMemory(...); a document is returned
Parse_Read ==
    /\ pc = "p51"
    /\ \E o \in {x \in ReadOutcomes : x.hasRoot = (x.doc # NULL)} :
         /\ doc' = o.doc
         /\ lastError' = Raise(lastError, o.raised)
         /\ errAtRead' = Raise(lastError, o.raised)
         /\ ret' = o.doc
         /\ pc' = IF o.doc = NULL THEN "p55" ELSE "idle"
    /\ libCalls' = Append(libCalls, LibCall("xmlReadMemory", BufAddr))
    /\ UNCHANGED <<fn, args, staleAtEntry, error, mem, written, tmpDoc>>
    /\ UNCHANGED <<treeVars, saveVars>>

\* a reset of the error record placed where line 55 is
Parse_FreeDoc_resets ==
    /\ pc = "p55"
    /\ lastError' = xmlResetLastError(lastError)
    /\ libCalls' = Append(libCalls, LibCall("xmlResetLastError", NULL))
    /\ pc' = "p56"
    /\ UNCHANGED <<fn, args, staleAtEntry, doc, errAtRead, error, mem, written,
                   tmpDoc, ret>>
    /\ UNCHANGED <<treeVars, saveVars>>

\* line 55: xmlFreeDoc(doc) with doc == NULL, which libxml2 returns from at
\* once
Parse_FreeDoc ==
    /\ pc = "p55"
    /\ libCalls' = Append(libCalls, LibCall("xmlFreeDoc", doc))
    /\ pc' = "p56"
    /\ UNCHANGED <<fn, args, lastError, staleAtEntry, doc, errAtRead, error,
                   mem, written, tmpDoc, ret>>
    /\ UNCHANGED <<treeVars, saveVars>>

\* line 56: error = xmlGetLastError()
Parse_GetLastError ==
    /\ pc = "p56"
    /\ error' = xmlGetLastError(lastError)
    /\ libCalls' = Append(libCalls, LibCall("xmlGetLastError", NULL))
    /\ pc' = "p57"
    /\ UNCHANGED <<fn, args, lastError, staleAtEntry, doc, errAtRead, mem,
                   written, tmpDoc, ret>>
    /\ UNCHANGED <<treeVars, saveVars>>

\* the conditions without the severity test
ShouldCopy_anyLevel(err, error_buffer) ==
    /\ err # {}
    /\ error_buffer # NULL
    /\ Deref(err).message # NullStr

\* lines 57 and 59: the conditions under which the message is copied
ShouldCopy(err, error_buffer) ==
    /\ err # {}
    /\ error_buffer # NULL
    /\ Deref(err).level >= XML_ERR_ERROR
    /\ Deref(err).message # NullStr

\* the byte strncpy(dst, src, n) stores at dst[i]: src's bytes, then nulls
StrncpyByte(src, i) == IF i < Len(src) THEN src[i + 1] ELSE "NUL"

\* memory after the stores to dst[0 .. k-1]
Stored(m, src, k) ==
    [i \in MemIdx |-> IF 0 <= i /\ i < k THEN StrncpyByte(src, i) ELSE m[i]]

\* lines 57-62 and 68: copy the message, terminate it, return NULL.
\* strncpy stores exactly n = (size_t)(error_buffer_len-1) bytes.  When they
\* do not fit the memory modelled, the copy runs on until the process
\* faults, after some number k of stores.
Parse_Copy ==
    /\ pc = "p57"
    /\ IF ShouldCopy(error, args.error_buffer)
       THEN LET src == Deref(Deref(error).message)
                n   == SizeT(args.error_buffer_len - 1)
                end == args.error_buffer_len - 1
            IN IF n <= MemTop + 1
               THEN /\ mem' = [Stored(mem, src, n) EXCEPT ![end] = "NUL"]
                    /\ written' = (0..(n - 1)) \cup {end}
                    /\ pc' = "idle"
               ELSE \E k \in 0..(MemTop + 1) :
                      /\ mem' = Stored(mem, src, k)
                      /\ written' = 0..(k - 1)
                      /\ pc' = "fault"
       ELSE /\ UNCHANGED <<mem, written>>
            /\ pc' = "idle"
    /\ UNCHANGED <<fn, args, lastError, staleAtEntry, doc, errAtRead, error,
                   libCalls, tmpDoc, ret>>
    /\ UNCHANGED <<treeVars, saveVars>>

\* xmlParseInNodeContext: a status and, when it is XML_ERR_OK, the fragment
FragmentOutcomes ==
    [errCode : {XML_ERR_OK}, root : {NULL, DocAddr}, raised : {{}}]
    \cup [errCode : {1}, root : {NULL}, raised : {{r} : r \in Raised}]

\* xmlNode* xmlParseFragment(...), lines 71-84: the error buffer is never
\* stored to; a status other than XML_ERR_OK is printed and NULL returned
XmlParseFragment ==
    /\ pc = "idle"
    /\ fn' = "xmlParseFragment"
    /\ staleAtEntry' = (lastError.code # XML_ERR_OK)
    /\ \E o \in FragmentOutcomes :
         /\ lastError' = Raise(Aged(lastError), o.raised)
         /\ errAtRead' = Raise(Aged(lastError), o.raised)
         /\ ret' = IF o.errCode # XML_ERR_OK THEN NULL ELSE o.root
    /\ libCalls' = <<LibCall("xmlParseInNodeContext", BufAddr)>>
    /\ doc' = NULL
    /\ error' = {}
    /\ mem' = FreshMem
    /\ written' = {}
    /\ tmpDoc' = NoTmpDoc
    /\ pc' = "idle"
    /\ UNCHANGED args
    /\ UNCHANGED <<treeVars, saveVars>>

\* xmlParseFragmentAsDoc is entered (lines 86-88)
FragDocEnter ==
    /\ Enter("xmlParseFragmentAsDoc")
    /\ lastError' = Aged(lastError)
    /\ pc' = "f89"
    /\ UNCHANGED args
    /\ UNCHANGED <<treeVars, saveVars>>

\* lines 89-92: tmpDoc = xmlReadMemory(...); NULL is returned at once
FragDoc_Read ==
    /\ pc = "f89"
    /\ \E o \in {x \in ReadOutcomes : x.doc = NULL => ~x.hasRoot} :
         /\ tmpDoc' = [ptr |-> o.doc, frees |-> 0, hasRoot |-> o.hasRoot]
         /\ lastError' = Raise(lastError, o.raised)
         /\ errAtRead' = Raise(lastError, o.raised)
         /\ pc' = IF o.doc = NULL THEN "idle" ELSE "f93"
    /\ libCalls' = Append(libCalls, LibCall("xmlReadMemory", BufAddr))
    /\ ret' = NULL
    /\ UNCHANGED <<fn, args, staleAtEntry, doc, error, mem, written>>
    /\ UNCHANGED <<treeVars, saveVars>>

\* lines 93-96: tmpRoot = xmlDocGetRootElement(tmpDoc); NULL is returned
FragDoc_GetRoot ==
    /\ pc = "f93"
    /\ libCalls' = Append(libCalls, LibCall("xmlDocGetRootElement", tmpDoc.ptr))
    /\ pc' = IF tmpDoc.hasRoot THEN "f97" ELSE "idle"
    /\ ret' = NULL
    /\ UNCHANGED <<fn, args, lastError, staleAtEntry, doc, errAtRead, error,
                   mem, written, tmpDoc>>
    /\ UNCHANGED <<treeVars, saveVars>>

\* lines 97-99: copy the root into doc, free tmpDoc, return the copy (NULL
\* when the copy could not be allocated)
FragDoc_CopyFree ==
    /\ pc = "f97"
    /\ \E copy \in {NULL, DocAddr} : ret' = copy
    /\ libCalls' = libCalls \o <<LibCall("xmlDocCopyNode", tmpDoc.ptr),
                                 LibCall("xmlFreeDoc", tmpDoc.ptr)>>
    /\ tmpDoc' = [tmpDoc EXCEPT !.frees = @ + 1]
    /\ pc' = "idle"
    /\ UNCHANGED <<fn, args, lastError, staleAtEntry, doc, errAtRead, error,
                   mem, written>>
    /\ UNCHANGED <<treeVars, saveVars>>

(***************************************************************************)
(* Saving: the save context, its output buffer and the two callbacks.      *)
(***************************************************************************)
\* the longest serialization tried, and the number of buffered bytes at
\* which the library's output buffer flushes by itself
MaxBytes == 4

FlushLen == 2

Sinks == {"w1", "w2"}

\* a save job: the sink, the number of bytes the subtree serializes to, and
\* the number of bytes after which serialization fails (none: MaxBytes + 1)
Jobs ==
    {j \in [wbuffer : Sinks, size : 0..MaxBytes, failAt : 0..(MaxBytes + 1)] :
        j.failAt <= j.size \/ j.failAt = MaxBytes + 1}

NoJob == [wbuffer |-> "w1", size |-> 0, failAt |-> MaxBytes + 1]

NoCtxt == [ptr |-> NULL, buffered |-> 0, error |-> FALSE]

\* int xml_write_callback(ctx, buffer, len), lines 5-10: the chunk goes to
\* the host's xmlNodeWriteCallback only when len > 0
xml_write_callback(ctx, len) ==
    <<[cb |-> "xml_write_callback", ctx |-> ctx, len |-> len]>>
    \o (IF len > 0
        THEN <<[cb |-> "xmlNodeWriteCallback", ctx |-> ctx, len |-> len]>>
        ELSE <<>>)

\* int close_callback(ctx), lines 12-14
close_callback(ctx) == <<[cb |-> "close_callback", ctx |-> ctx, len |-> 0]>>

\* libxml2 xmlOutputBufferFlush: nothing once the buffer is in error, else
\* the write callback gets what is buffered
Flush(ctx, c) ==
    IF c.error THEN [ctxt |-> c, ev |-> <<>>]
    ELSE [ctxt |-> [c EXCEPT !.buffered = 0],
          ev |-> xml_write_callback(ctx, c.buffered)]

\* libxml2 xmlSaveTree from byte i on: bytes are buffered one by one, the
\* buffer flushes at FlushLen, and a failure puts the buffer in error
RECURSIVE Serialize(_, _, _, _)
Serialize(j, c, i, ev) ==
    IF i = j.failAt THEN [ctxt |-> [c EXCEPT !.error = TRUE], ev |-> ev]
    ELSE IF i >= j.size THEN [ctxt |-> c, ev |-> ev]
    ELSE LET c1 == [c EXCEPT !.buffered = @ + 1]
             f  == IF c1.buffered >= FlushLen
                   THEN Flush(j.wbuffer, c1)
                   ELSE [ctxt |-> c1, ev |-> <<>>]
         IN Serialize(j, f.ctxt, i + 1, ev \o f.ev)

\* xmlSaveNode is entered (lines 134-136)
SaveEnter ==
    \E j \in Jobs :
        /\ pc = "idle"
        /\ fn' = "xmlSaveNode"
        /\ job' = j
        /\ savectx' = NoCtxt
        /\ events' = <<>>
        /\ ret' = NULL
        /\ pc' = "s138"
        /\ UNCHANGED <<args, lastError, staleAtEntry, doc, errAtRead, error,
                       mem, written, libCalls, tmpDoc>>
        /\ UNCHANGED treeVars

\* lines 138-144: savectx = xmlSaveToIO(...), NULL when the context or its
\* output buffer cannot be made (no callback has run by then)
Save_Open ==
    /\ pc = "s138"
    /\ \E p \in {NULL, DocAddr} : savectx' = [NoCtxt EXCEPT !.ptr = p]
    /\ pc' = "s145"
    /\ UNCHANGED <<fn, args, lastError, staleAtEntry, doc, errAtRead, error,
                   mem, written, libCalls, tmpDoc, ret, job, events>>
    /\ UNCHANGED treeVars

\* line 145: xmlSaveTree(savectx, node), which does nothing for a NULL context
Save_Tree ==
    /\ pc = "s145"
    /\ IF savectx.ptr = NULL
       THEN UNCHANGED <<savectx, events>>
       ELSE LET r == Serialize(job, savectx, 0, <<>>)
            IN /\ savectx' = r.ctxt
               /\ events' = events \o r.ev
    /\ pc' = "s146"
    /\ UNCHANGED <<fn, args, lastError, staleAtEntry, doc, errAtRead, error,
                   mem, written, libCalls, tmpDoc, ret, job>>
    /\ UNCHANGED treeVars

\* returning without the xmlSaveClose of line 146
Save_Close_missing ==
    /\ pc = "s146"
    /\ ret' = 0
    /\ pc' = "idle"
    /\ UNCHANGED <<fn, args, lastError, staleAtEntry, doc, errAtRead, error,
                   mem, written, libCalls, tmpDoc, job, savectx, events>>
    /\ UNCHANGED treeVars

\* line 146: return xmlSaveClose(savectx).  For a NULL context it returns -1.
\* Otherwise xmlSaveFlush flushes the buffer, and freeing the context closes
\* the buffer: one more flush, then the close callback.  The result is that
\* of xmlSaveFlush.
Save_Close ==
    /\ pc = "s146"
    /\ IF savectx.ptr = NULL
       THEN /\ ret' = 0 - 1
            /\ UNCHANGED <<savectx, events>>
       ELSE LET f1 == Flush(job.wbuffer, savectx)
                f2 == Flush(job.wbuffer, f1.ctxt)
            IN /\ ret' = IF savectx.error THEN 0 - 1 ELSE savectx.buffered
               /\ savectx' = f2.ctxt
               /\ events' = events \o f1.ev \o f2.ev
                            \o close_callback(job.wbuffer)
    /\ pc' = "idle"
    /\ UNCHANGED <<fn, args, lastError, staleAtEntry, doc, errAtRead, error,
                   mem, written, libCalls, tmpDoc, job>>
    /\ UNCHANGED treeVars

InitParseVars ==
    /\ pc = "idle"
    /\ fn = "none"
    /\ args = [error_buffer |-> NULL, error_buffer_len |-> 0]
    /\ lastError = NoError
    /\ staleAtEntry = FALSE
    /\ doc = NULL
    /\ errAtRead = NoError
    /\ error = {}
    /\ mem = FreshMem
    /\ written = {}
    /\ libCalls = <<>>
    /\ tmpDoc = NoTmpDoc
    /\ ret = NULL

InitTreeVars ==
    /\ nodes = MakeNodes([n \in Nodes |-> NULL])
    /\ call = NoCall

InitSaveVars ==
    /\ job = NoJob
    /\ savectx = NoCtxt
    /\ events = <<>>

InitParse == InitParseVars /\ InitTreeVars /\ InitSaveVars

NextParse ==
    \/ ParseEnter
    \/ Parse_Reset
    \/ Parse_Read
    \/ Parse_FreeDoc
    \/ Parse_GetLastError
    \/ Parse_Copy
    \/ XmlParseFragment
    \/ FragDocEnter
    \/ FragDoc_Read
    \/ FragDoc_GetRoot
    \/ FragDoc_CopyFree

SpecParse == InitParse /\ [][NextParse]_vars

InitSave == InitParseVars /\ InitTreeVars /\ InitSaveVars

NextSave == SaveEnter \/ Save_Open \/ Save_Tree \/ Save_Close

SpecSave == InitSave /\ [][NextSave]_vars

InitTree ==
    /\ \E par \in Forests : nodes = MakeNodes(par)
    /\ call = NoCall
    /\ InitParseVars
    /\ InitSaveVars

UnlinkStep == \E n \in Nodes : XmlUnlinkNodeWithCheck(n)

SetContentStep ==
    \E g \in GoHandles, n \in ContentNodes, c \in Contents, ok \in BOOLEAN :
        XmlSetContent(g, n, c, ok)

NextTree == UnlinkStep \/ SetContentStep

SpecTree == InitTree /\ [][NextTree]_vars

(***************************************************************************)
(* Properties of the tree operations, checked under SpecTree.              *)
(***************************************************************************)
IsUnlinkCall == call.fn = "xmlUnlinkNodeWithCheck"

IsSetContentCall == call.fn = "xmlSetContent"

\* is c on the child list of some node?
Listed(c) ==
    \E m \in Nodes : \E i \in 1..Len(ChildList(nodes, m)) :
        ChildList(nodes, m)[i] = c

\* C1 as stated: the second of two xmlUnlinkNodeWithCheck calls in a row on
\* one node returns 0, does not invoke xmlUnlinkNode and mutates nothing.
C1_SecondCallReturnsFalse ==
    (IsUnlinkCall /\ call.again) =>
        (call.ret = 0 /\ call.unlinks = 0 /\ ~call.mutated)

\* C1 amended: the second of two xmlUnlinkNodeWithCheck calls in a row on
\* one node mutates nothing; it returns 0 without invoking xmlUnlinkNode
\* exactly when the node's parent is the sentinel, and otherwise (the first
\* call left parent NULL, which the guard lets through) it invokes
\* xmlUnlinkNode again and returns 1.
C1_SecondCallNoMutation ==
    (IsUnlinkCall /\ call.again) =>
        /\ ~call.mutated
        /\ call.parentWas \in {NULL, SENTINEL}
        /\ (call.parentWas = SENTINEL) => (call.ret = 0 /\ call.unlinks = 0)
        /\ (call.parentWas = NULL) => (call.ret = 1 /\ call.unlinks = 1)

\* a second call in a row on a node the first call unlinked
C1_Witness ==
    IsUnlinkCall /\ call.again /\ call.parentWas = NULL /\ call.ret = 1

\* C10: xmlUnlinkNodeWithCheck never hands xmlUnlinkNode a node whose parent
\* is the sentinel and the sentinel is never dereferenced; a sentinel parent
\* gives 0 with nothing changed, any other parent (NULL too) gives an unlink
\* and 1.
C10_SentinelGuard ==
    IsUnlinkCall =>
        /\ ~call.deref
        /\ (call.parentWas = SENTINEL) =>
              /\ call.ret = 0
              /\ call.unlinks = 0
              /\ ~call.mutated
              /\ nodes[call.node].parent = SENTINEL
        /\ (call.parentWas # SENTINEL) =>
              /\ call.ret = 1
              /\ call.unlinks = 1
              /\ nodes[call.node].parent = NULL
              /\ nodes[call.node].next = NULL
              /\ nodes[call.node].prev = NULL
              /\ ~Listed(call.node)

\* a call on a node whose parent field holds the sentinel
C10_Witness ==
    /\ IsUnlinkCall
    /\ call.parentWas = SENTINEL
    /\ call.ret = 0

\* C4: when the encoding succeeds, xmlSetContent unlinks every child the
\* node had on entry, in document order, calls xmlUnlinkNodeCallback exactly
\* once for each with the caller's handle, and the node has no children when
\* xmlNodeSetContent is called.
C4_AllChildrenUnlinkedOnce ==
    (IsSetContentCall /\ call.encoded # NullStr) =>
        /\ Len(call.log) = Cardinality(call.entry)
        /\ \A c \in call.entry : \E i \in 1..Len(call.log) : call.log[i].child = c
        /\ \A i \in 1..Len(call.log) :
              /\ call.log[i].child \in call.entry
              /\ call.log[i].gonode = call.gonode
              /\ \A j \in 1..Len(call.log) :
                    i < j => call.log[i].child < call.log[j].child
        /\ \A c \in call.entry :
              /\ nodes[c].parent = NULL
              /\ nodes[c].next = NULL
              /\ nodes[c].prev = NULL
        /\ call.atAssign = 0

\* a successful xmlSetContent on a node that had three children
C4_Witness ==
    /\ IsSetContentCall
    /\ call.encoded # NullStr
    /\ Cardinality(call.entry) >= 3
    /\ Len(call.log) >= 3

\* C5: when xmlEncodeSpecialChars returns NULL, xmlSetContent leaves the
\* node as it was: children and content unchanged, no callback, nothing freed.
C5_EncodeFailureLeavesNode ==
    (IsSetContentCall /\ call.encoded = NullStr) =>
        /\ ~call.mutated
        /\ call.log = <<>>
        /\ call.freed = <<>>
        /\ \A c \in call.entry : nodes[c].parent = call.node
        /\ Len(ChildList(nodes, call.node)) = Cardinality(call.entry)

\* a failed encoding on a node that has children
C5_Witness ==
    /\ IsSetContentCall
    /\ call.encoded = NullStr
    /\ Cardinality(call.entry) >= 2

(***************************************************************************)
(* Properties of the parse functions, checked under SpecParse.             *)
(***************************************************************************)
InParse == fn = "xmlParse"

\* the number of message bytes now in the indices the call stored to
MessageBytes == Cardinality({i \in written : mem[i] # "NUL"})

\* C2: for every capacity N >= 0 and every message, a failing xmlParse
\* stores at most N-1 message bytes and a terminator, all at indices in
\* 0..N-1, and does not run off the buffer when N = 0.
C2_StoresStayInBuffer ==
    InParse =>
        /\ pc # "fault"
        /\ written \subseteq 0..(args.error_buffer_len - 1)
        /\ args.error_buffer_len >= 1 => MessageBytes <= args.error_buffer_len - 1

\* the conditions C6 lists, on the record the read call left
Reportable ==
    /\ doc = NULL
    /\ errAtRead.code # XML_ERR_OK
    /\ errAtRead.level >= XML_ERR_ERROR
    /\ errAtRead.message # NullStr
    /\ args.error_buffer # NULL

\* C6: xmlParse stores to the error buffer only when the parse returned
\* NULL, a last-error record exists, its level is at least XML_ERR_ERROR, it
\* carries a message and the buffer is not NULL; otherwise the buffer keeps
\* every byte.
C6_StoresOnlyWhenReportable ==
    (written # {} \/ mem # FreshMem) => (InParse /\ Reportable)

\* a failing xmlParse that has copied a message and returned
C6_Witness ==
    InParse /\ pc = "idle" /\ written # {} /\ mem # FreshMem /\ Reportable

\* C7 as stated: the xmlGetLastError call is the library call right after
\* the failing xmlReadMemory call.
C7_ErrorReadRightAfterRead ==
    InParse =>
        \A i \in 1..Len(libCalls) :
            libCalls[i].fn = "xmlGetLastError" =>
                (i > 1 /\ libCalls[i - 1].fn = "xmlReadMemory")

\* C7 amended: between the failing xmlReadMemory and xmlGetLastError the
\* adapter makes exactly one library call, xmlFreeDoc(NULL), which leaves
\* the last-error record alone: xmlGetLastError returns the record as the
\* failing read left it.
C7_OnlyFreeDocNullBetween ==
    InParse =>
        \A i \in 1..Len(libCalls) :
            libCalls[i].fn = "xmlGetLastError" =>
                /\ i > 2
                /\ libCalls[i - 1] = LibCall("xmlFreeDoc", NULL)
                /\ libCalls[i - 2].fn = "xmlReadMemory"
                /\ doc = NULL
                /\ error = xmlGetLastError(errAtRead)

\* xmlParse has read an error record after a failing read
C7_Witness ==
    /\ InParse
    /\ pc = "p57"
    /\ error # {}
    /\ libCalls[Len(libCalls)].fn = "xmlGetLastError"

\* C8: xmlParseFragmentAsDoc frees the temporary document exactly once on
\* every return path on which it was created, the no-root path included,
\* and frees nothing when it was not created.
C8_TmpDocFreedOnce ==
    (fn = "xmlParseFragmentAsDoc" /\ pc = "idle") =>
        tmpDoc.frees = (IF tmpDoc.ptr # NULL THEN 1 ELSE 0)

\* C9: the record a failing xmlParse reads, and so the message it copies,
\* was raised during that same xmlParse call, never left by an earlier call.
C9_ReportedErrorIsOwn ==
    (InParse /\ error # {}) =>
        /\ Deref(error).fresh
        /\ Deref(error) = errAtRead

\* xmlParse copies a message although an earlier call left an error behind
C9_Witness ==
    InParse /\ pc = "idle" /\ staleAtEntry /\ written # {}

(***************************************************************************)
(* Properties of xmlSaveNode, checked under SpecSave.                      *)
(***************************************************************************)
SaveDone == fn = "xmlSaveNode" /\ pc = "idle"

Closes == {i \in 1..Len(events) : events[i].cb = "close_callback"}

\* C3 as stated: in every xmlSaveNode, the context opened or not, the close
\* callback runs exactly once and after every write callback.
C3_ClosedExactlyOnce ==
    SaveDone => (Cardinality(Closes) = 1 /\ Len(events) \in Closes)

\* C3 amended: when xmlSaveToIO returned a context, the close callback runs
\* exactly once, after every write callback and with none after it, whether
\* serialization succeeds or fails midway and for the empty subtree too;
\* when xmlSaveToIO returned NULL, no callback runs and -1 is returned.
C3_ClosedOnceWhenOpened ==
    /\ (fn = "xmlSaveNode" /\ pc # "idle") => Closes = {}
    /\ SaveDone =>
         IF savectx.ptr # NULL
         THEN /\ Cardinality(Closes) = 1
              /\ Len(events) \in Closes
              /\ \A i \in 1..Len(events) : events[i].ctx = job.wbuffer
         ELSE events = <<>> /\ ret = 0 - 1

\* a save that wrote several chunks, then failed midway, and has returned
C3_Witness ==
    /\ SaveDone
    /\ savectx.ptr # NULL
    /\ savectx.error
    /\ Len(events) >= 3

====
